---- MODULE Spec2Model ----
(***************************************************************************)
(* The parca_scrape relation library of the zinc operator:                 *)
(* lib/charms/parca/v0/parca_scrape.py.                                    *)
(*                                                                         *)
(* Representation of Python values.                                        *)
(*  - A str that the code takes apart or builds (targets, addresses, job   *)
(*    names, label values) is a sequence of atoms, each atom a piece of    *)
(*    text with no separator in it: "*:8080" is <<"*", ":", "8080">>,      *)
(*    " * " is <<" ", "*", " ">>, the empty str is <<>>.  split, strip and *)
(*    format then compute on the text instead of being looked up.          *)
(*  - A dict is a function whose DOMAIN is its set of keys; the empty dict *)
(*    and the empty list are both <<>>.  Key order is not modelled, except *)
(*    for the hosts dict, which the code iterates: it is a sequence of     *)
(*    <<key, value>> pairs with unique keys, in insertion order.           *)
(*  - None is <<>>: the code only ever tests it for truth.                 *)
(*  - Relation data hold JSON texts; the variables hold the documents the  *)
(*    texts denote (lists, dicts and strs with str keys).                  *)
(***************************************************************************)
EXTENDS Integers, Sequences, FiniteSets, TLC

VARIABLES
    appdata,    \* appdata[r]: relation.data[relation.app], the remote application databag
    unitdata,   \* unitdata[r]: relation.units (its DOMAIN) and relation.data[unit] of each
    result,     \* outcome of the jobs() call of the current hook, if one was made
    jobsArg,    \* the jobs argument of the last ProfilingEndpointProvider construction
    provider,   \* the constructed provider: its _jobs attribute
    earlier,    \* outcome of the jobs() call before the last one, on the same relation data
    event,      \* the relation event of the consumer's current hook: its name and relation id
    emitted,    \* relation ids of the targets_changed events emitted in the current hook
    owed,       \* the unit whose relation_changed hook Juju runs next, after its relation_joined
    leader,     \* leader[r]: the unit of the application of relation r that is_leader()
    resolution, \* resolution[unit]: how the unit's address resolutions went so far
    samePublish,\* samePublish[r]: units whose databag was written in the hook that wrote appdata[r]
    written,    \* what the last handler of a publisher unit wrote, and whether it was leader
    stored,     \* ZincCharm._stored
    layers,     \* the Pebble layers ZincCharm added, oldest first
    results,    \* the results set by get-admin-password actions, oldest first
    meta,       \* charm.meta.relations of the charm constructing the library object
    constructed,\* the last construction of a library object and how it ended
    observers   \* the (event, handler) pairs registered with framework.observe

\* The variables of the consumer's relation hooks, of the publisher's units,
\* of the zinc charm and of the construction of the library objects.
hookVars == <<event, emitted, owed>>

publisherVars == <<leader, resolution, samePublish, written>>

charmVars == <<stored, layers, results>>

metaVars == <<meta, constructed, observers>>

vars == <<appdata, unitdata, result, jobsArg, provider, earlier,
          hookVars, publisherVars, charmVars, metaVars>>

-----------------------------------------------------------------------------
(* Python built-ins used by the library *)

None == <<>>

\* bool(v) of a str, list or dict: whether it is non-empty
Truthy(v) == DOMAIN v # {}

\* d.get(k, default)
Get(d, k, default) == IF k \in DOMAIN d THEN d[k] ELSE default

\* d.copy() followed by .update(e): e's keys win
Update(d, e) ==
    [k \in (DOMAIN d) \cup (DOMAIN e) |-> IF k \in DOMAIN e THEN e[k] ELSE d[k]]

\* {key: value for key, value in d.items() if key in keys}
Restrict(d, keys) == [k \in (DOMAIN d) \cap keys |-> d[k]]

\* a or b
Or(a, b) == IF Truthy(a) THEN a ELSE b

\* s.split(sep): the pieces of s between the occurrences of sep
RECURSIVE Split(_, _)
Split(s, sep) ==
    IF \A i \in 1..Len(s) : s[i] # sep
    THEN << s >>
    ELSE LET i == CHOOSE n \in 1..Len(s) : s[n] = sep /\ \A m \in 1..(n - 1) : s[m] # sep
         IN  << SubSeq(s, 1, i - 1) >> \o Split(SubSeq(s, i + 1, Len(s)), sep)

\* s.strip(): s without its leading and trailing blanks
RECURSIVE Strip(_)
Strip(s) ==
    IF s = <<>> THEN s
    ELSE IF Head(s) = " " THEN Strip(Tail(s))
    ELSE IF s[Len(s)] = " " THEN Strip(SubSeq(s, 1, Len(s) - 1))
    ELSE s

\* "{}_{}".format(a, b) and "{}:{}".format(a, b)
Format2(a, sep, b) == a \o << sep >> \o b

RECURSIVE Concat(_)
Concat(lists) == IF lists = <<>> THEN <<>> ELSE Head(lists) \o Concat(Tail(lists))

-----------------------------------------------------------------------------
(* Module constants *)

ALLOWED_KEYS == {"job_name", "static_configs", "scrape_interval", "scrape_timeout"}

DEFAULT_JOB == [static_configs |-> << [targets |-> << <<"*", ":", "80">> >>] >>]

-----------------------------------------------------------------------------
(* _sanitize_scrape_configuration *)

\* Faulty variants: the allow-list is not applied; the default job is not the base.
SanitizeKeepsEveryKey(job) == Update(DEFAULT_JOB, job)

SanitizeWithoutDefault(job) ==
    IF Restrict(job, ALLOWED_KEYS) = <<>> THEN DEFAULT_JOB ELSE Restrict(job, ALLOWED_KEYS)

_sanitize_scrape_configuration(job) == Update(DEFAULT_JOB, Restrict(job, ALLOWED_KEYS))

-----------------------------------------------------------------------------
(* JujuTopology (charms.observability_libs.v0.juju_topology): the scope     *)
(* identifier and the label set of an identity metadata record.            *)

identifier(scrape_metadata) ==
    Format2(Format2(scrape_metadata.model, "_", scrape_metadata.model_uuid),
            "_", scrape_metadata.application)

label_matcher_dict(scrape_metadata) ==
    [juju_model       |-> scrape_metadata.model,
     juju_model_uuid  |-> scrape_metadata.model_uuid,
     juju_application |-> scrape_metadata.application]

-----------------------------------------------------------------------------
(* ProfilingEndpointConsumer: the relabeling engine *)

\* The outcome of a call that may raise: the value it returns, or the exception.
Return(v) == [raised |-> FALSE, value |-> v]

Raise(e) == [raised |-> TRUE, value |-> e]

\* Faulty variant: the publishing member's name goes into the topology labels.
SetJujuLabelsWithPublisher(labels, scrape_metadata) ==
    Update(labels, Update(label_matcher_dict(scrape_metadata),
                          [juju_unit |-> scrape_metadata.unit]))

_set_juju_labels(labels, scrape_metadata) ==
    Update(labels, label_matcher_dict(scrape_metadata))

\* Faulty variant: the topology labels are not added.
UnitlessConfigWithoutTopology(targets, labels, scrape_metadata) ==
    [targets |-> targets, labels |-> labels]

_labeled_unitless_config(targets, labels, scrape_metadata) ==
    [targets |-> targets, labels |-> _set_juju_labels(labels, scrape_metadata)]

\* Faulty variant: no fallback to the bare address when there is no port.
UnitConfigWithoutFallback(unit_name, host_address, ports, labels, scrape_metadata) ==
    [labels  |-> Update(_set_juju_labels(labels, scrape_metadata), [juju_unit |-> unit_name]),
     targets |-> [i \in 1..Len(ports) |-> Format2(host_address, ":", ports[i])]]

_labeled_unit_config(unit_name, host_address, ports, labels, scrape_metadata) ==
    LET juju_labels == Update(_set_juju_labels(labels, scrape_metadata),
                              [juju_unit |-> unit_name])
    IN  [labels  |-> juju_labels,
         targets |-> IF Truthy(ports)
                     THEN [i \in 1..Len(ports) |-> Format2(host_address, ":", ports[i])]
                     ELSE << host_address >>]

\* "host, port = target.split(":")" succeeds only on exactly two pieces.
Unpacks(target) == Len(Split(target, ":")) = 2

IsWildcard(target) == Strip(Split(target, ":")[1]) = << "*" >>

\* The two buckets the targets of one group are split into (lines 547-554).
SplitTargets(all_targets) ==
    LET wild == SelectSeq(all_targets, IsWildcard)
        NotWild(t) == ~IsWildcard(t)
    IN  [ports            |-> [i \in 1..Len(wild) |-> Strip(Split(wild[i], ":")[2])],
         unitless_targets |-> SelectSeq(all_targets, NotWild)]

\* Faulty variant: juju_unit is appended on every pass.
AppendJujuUnitAlways(source_labels) == Append(source_labels, "juju_unit")

\* source_labels after one pass of the loop over hosts (lines 569-570)
AppendJujuUnit(source_labels) ==
    IF \E i \in 1..Len(source_labels) : source_labels[i] = "juju_unit"
    THEN source_labels
    ELSE Append(source_labels, "juju_unit")

\* The loop over hosts.items() for one group (lines 564-570); acc holds
\* labeled_job["static_configs"] and instance_relabel_config["source_labels"].
RECURSIVE HostsLoop(_, _, _, _, _)
HostsLoop(acc, hosts, ports, labels, scrape_metadata) ==
    IF hosts = <<>> THEN acc
    ELSE HostsLoop(
            [static_configs |-> Append(acc.static_configs,
                                       _labeled_unit_config(Head(hosts)[1], Head(hosts)[2],
                                                            ports, labels, scrape_metadata)),
             source_labels  |-> AppendJujuUnit(acc.source_labels)],
            Tail(hosts), ports, labels, scrape_metadata)

\* Faulty variant: the fully-qualified entry of a group comes after its members.
GroupStepUnitlessLast(acc, static_config, hosts, scrape_metadata) ==
    LET labels      == Get(static_config, "labels", <<>>)
        all_targets == Get(static_config, "targets", <<>>)
        split       == SplitTargets(all_targets)
        withHosts   == HostsLoop(acc, hosts, split.ports, labels, scrape_metadata)
    IN  IF Truthy(split.unitless_targets)
        THEN [withHosts EXCEPT !.static_configs =
                 Append(@, _labeled_unitless_config(split.unitless_targets,
                                                    labels, scrape_metadata))]
        ELSE withHosts

\* One pass of the loop over static_configs (lines 542-570).
GroupStep(acc, static_config, hosts, scrape_metadata) ==
    LET labels      == Get(static_config, "labels", <<>>)
        all_targets == Get(static_config, "targets", <<>>)
        split       == SplitTargets(all_targets)
        withUnitless ==
            IF Truthy(split.unitless_targets)
            THEN [acc EXCEPT !.static_configs =
                     Append(@, _labeled_unitless_config(split.unitless_targets,
                                                        labels, scrape_metadata))]
            ELSE acc
    IN  HostsLoop(withUnitless, hosts, split.ports, labels, scrape_metadata)

\* Faulty variant: the targets of all groups are pooled before the split.
GroupsLoopPooled(acc, static_configs, hosts, scrape_metadata) ==
    IF static_configs = <<>> THEN acc
    ELSE GroupStep(acc,
                   [targets |-> Concat([g \in 1..Len(static_configs) |->
                                           Get(static_configs[g], "targets", <<>>)]),
                    labels  |-> Get(static_configs[1], "labels", <<>>)],
                   hosts, scrape_metadata)

RECURSIVE GroupsLoop(_, _, _, _)
GroupsLoop(acc, static_configs, hosts, scrape_metadata) ==
    IF static_configs = <<>> THEN acc
    ELSE GroupsLoop(GroupStep(acc, Head(static_configs), hosts, scrape_metadata),
                    Tail(static_configs), hosts, scrape_metadata)

\* Whether the unpacking of line 550 raises for some target of the job.
RaisesValueError(job) ==
    LET static_configs == Get(job, "static_configs", <<>>)
    IN  \E g \in 1..Len(static_configs) :
            LET all_targets == Get(static_configs[g], "targets", <<>>)
            IN  \E t \in 1..Len(all_targets) : ~Unpacks(all_targets[t])

\* Faulty variant: a named job is not prefixed.
JobNameWithoutPrefix(job, job_name_prefix) ==
    IF Truthy(Get(job, "job_name", None)) THEN job.job_name ELSE job_name_prefix

\* The resolved job name (lines 522-523)
JobName(job, job_name_prefix) ==
    LET name == Get(job, "job_name", None)
    IN  IF Truthy(name) THEN Format2(job_name_prefix, "_", name) ELSE job_name_prefix

\* Faulty variant: the uniqueness rule is not appended.
RelabelConfigsWithoutRule(job, instance_relabel_config) == Get(job, "relabel_configs", <<>>)

\* The relabeling rules of the labeled job (lines 573-574)
RelabelConfigs(job, instance_relabel_config) ==
    Append(Get(job, "relabel_configs", <<>>), instance_relabel_config)

_labeled_static_job_config(job, job_name_prefix, hosts, scrape_metadata) ==
    IF RaisesValueError(job) THEN Raise("ValueError")
    ELSE
    LET acc == GroupsLoop(
                  [static_configs |-> <<>>,
                   source_labels  |-> <<"juju_model", "juju_model_uuid", "juju_application">>],
                  Get(job, "static_configs", <<>>), hosts, scrape_metadata)
        instance_relabel_config ==
            [source_labels |-> acc.source_labels,
             separator     |-> "_",
             target_label  |-> "instance",
             regex         |-> "(.*)"]
    IN  Return(Update(job, [job_name        |-> JobName(job, job_name_prefix),
                            static_configs  |-> acc.static_configs,
                            relabel_configs |-> RelabelConfigs(job, instance_relabel_config)]))

-----------------------------------------------------------------------------
(* ProfilingEndpointConsumer: membership and aggregation *)

\* self._charm.model.relations[self._relation_name], in list order
RelationIds == {1, 2}

relations == <<1, 2>>

\* unit.name, the platform's name of a unit
UnitName(unit) == << unit >>

\* Faulty variant: a name already in the dict keeps its first address.
DictSetKeepsFirst(pairs, k, v) ==
    IF \E i \in 1..Len(pairs) : pairs[i][1] = k
    THEN pairs
    ELSE Append(pairs, <<k, v>>)

\* hosts.update({k: v}) on the insertion-ordered hosts dict
DictSet(pairs, k, v) ==
    IF \E i \in 1..Len(pairs) : pairs[i][1] = k
    THEN [i \in 1..Len(pairs) |-> IF pairs[i][1] = k THEN <<k, v>> ELSE pairs[i]]
    ELSE Append(pairs, <<k, v>>)

\* Faulty variant: the legacy host key is preferred to the address key.
RECURSIVE HostsFromPrefersLegacyHost(_, _, _)
HostsFromPrefersLegacyHost(hosts, order, data) ==
    IF order = <<>> THEN hosts
    ELSE LET unit         == Head(order)
             unit_name    == Or(Get(data[unit], "parca_scrape_unit_name", None),
                                UnitName(unit))
             unit_address == Or(Get(data[unit], "parca_scrape_host", None),
                                Get(data[unit], "parca_scrape_unit_address", None))
         IN  HostsFromPrefersLegacyHost(IF Truthy(unit_name) /\ Truthy(unit_address)
                                        THEN DictSet(hosts, unit_name, unit_address)
                                        ELSE hosts,
                                        Tail(order), data)

\* The loop of _relation_hosts over relation.units, visited in the order `order`.
RECURSIVE HostsFrom(_, _, _)
HostsFrom(hosts, order, data) ==
    IF order = <<>> THEN hosts
    ELSE LET unit         == Head(order)
             unit_name    == Or(Get(data[unit], "parca_scrape_unit_name", None),
                                UnitName(unit))
             unit_address == Or(Get(data[unit], "parca_scrape_unit_address", None),
                                Get(data[unit], "parca_scrape_host", None))
         IN  HostsFrom(IF Truthy(unit_name) /\ Truthy(unit_address)
                       THEN DictSet(hosts, unit_name, unit_address)
                       ELSE hosts,
                       Tail(order), data)

\* Faulty variant: units are kept whatever their name and address.
RelationHostsKeepsInvalid(relation, order) ==
    [i \in 1..Len(order) |->
        << Or(Get(unitdata[relation][order[i]], "parca_scrape_unit_name", None),
              UnitName(order[i])),
           Or(Get(unitdata[relation][order[i]], "parca_scrape_unit_address", None),
              Get(unitdata[relation][order[i]], "parca_scrape_host", None)) >>]

_relation_hosts(relation, order) == HostsFrom(<<>>, order, unitdata[relation])

\* The list comprehension-like loop of lines 468-476; an exception raised by one
\* job leaves the loop.
LabeledJobConfigs(scrape_jobs, job_name_prefix, hosts, scrape_metadata) ==
    LET config(i) == _labeled_static_job_config(
                         _sanitize_scrape_configuration(scrape_jobs[i]),
                         job_name_prefix, hosts, scrape_metadata)
    IN  IF \E i \in 1..Len(scrape_jobs) : config(i).raised
        THEN Raise("ValueError")
        ELSE Return([i \in 1..Len(scrape_jobs) |-> config(i).value])

\* Faulty variant: a relation without scrape_metadata yields nothing.
StaticScrapeConfigSkipsUnlabeled(relation, order) ==
    LET scrape_jobs     == Get(appdata[relation], "scrape_jobs", <<>>)
        scrape_metadata == Get(appdata[relation], "scrape_metadata", <<>>)
    IN  IF DOMAIN unitdata[relation] = {} \/ ~Truthy(scrape_jobs) \/ ~Truthy(scrape_metadata)
        THEN Return(<<>>)
        ELSE LabeledJobConfigs(scrape_jobs, identifier(scrape_metadata),
                               _relation_hosts(relation, order), scrape_metadata)

\* Faulty variant: the identity metadata of the first relation serve for all.
StaticScrapeConfigSharedMetadata(relation, order) ==
    IF DOMAIN unitdata[relation] = {} THEN Return(<<>>)
    ELSE LET scrape_jobs == Get(appdata[relation], "scrape_jobs", <<>>) IN
         IF ~Truthy(scrape_jobs) THEN Return(<<>>)
         ELSE LET scrape_metadata == Get(appdata[relations[1]], "scrape_metadata", <<>>) IN
              IF ~Truthy(scrape_metadata) THEN Return(scrape_jobs)
              ELSE LabeledJobConfigs(scrape_jobs, identifier(scrape_metadata),
                                     _relation_hosts(relation, order), scrape_metadata)

_static_scrape_config(relation, order) ==
    IF DOMAIN unitdata[relation] = {} THEN Return(<<>>)
    ELSE LET scrape_jobs == Get(appdata[relation], "scrape_jobs", <<>>) IN
         IF ~Truthy(scrape_jobs) THEN Return(<<>>)
         ELSE LET scrape_metadata == Get(appdata[relation], "scrape_metadata", <<>>) IN
              IF ~Truthy(scrape_metadata) THEN Return(scrape_jobs)
              ELSE LabeledJobConfigs(scrape_jobs, identifier(scrape_metadata),
                                     _relation_hosts(relation, order), scrape_metadata)

\* The orders in which a set can be iterated
Orders(S) ==
    {s \in [1..Cardinality(S) -> S] : \A i, j \in 1..Cardinality(S) : s[i] = s[j] => i = j}

NoCall == [status |-> "none"]

\* jobs(): `order` is the order in which each relation.units set happens to iterate.
\* The outcome records the list each relation contributed (static_scrape_jobs).
JobsOutcome(order) ==
    LET per == [r \in RelationIds |-> _static_scrape_config(r, order[r])]
    IN  IF \E r \in RelationIds : per[r].raised
        THEN [status |-> "raised", order |-> order]
        ELSE [status |-> "returned", order |-> order,
              per    |-> [r \in RelationIds |-> per[r].value],
              jobs   |-> Concat([i \in 1..Len(relations) |-> per[relations[i]].value])]

\* The first call of a hook.  relation.units is a set of Unit objects, which
\* hash by identity: the order in which the process iterates it is not fixed
\* by the relation data.
jobs ==
    /\ result = NoCall
    /\ \E order \in [RelationIds -> UNION {Orders(DOMAIN unitdata[r]) : r \in RelationIds}] :
          /\ \A r \in RelationIds : order[r] \in Orders(DOMAIN unitdata[r])
          /\ result' = JobsOutcome(order)
    /\ UNCHANGED <<appdata, unitdata, jobsArg, provider, earlier, hookVars, publisherVars, charmVars, metaVars>>

\* A further call in the same hook: the same process iterates the same
\* relation.units objects, in the same order as before.
jobsAgain ==
    /\ result # NoCall
    /\ earlier' = result
    /\ result' = JobsOutcome(result.order)
    /\ UNCHANGED <<appdata, unitdata, jobsArg, provider, hookVars, publisherVars, charmVars, metaVars>>

\* The hook ends and a later hook, which finds the relation data unchanged
\* (update-status, say), starts in a new process.
NextHook ==
    /\ result # NoCall
    /\ earlier' = result
    /\ result' = NoCall
    /\ UNCHANGED <<appdata, unitdata, jobsArg, provider, hookVars, publisherVars, charmVars, metaVars>>

-----------------------------------------------------------------------------
(* What the related applications can put on the relation *)

\* The units each related application can have.
RemoteUnits(r) == IF r = 1 THEN {"app/0", "app/1"} ELSE {"db/0"}

Address(unit) ==
    CASE unit = "app/0" -> << "10.0.0.1" >>
      [] unit = "app/1" -> << "10.0.0.2" >>
      [] OTHER          -> << "db-0.local" >>

\* The unit databags a unit can publish: nothing yet, name and address as
\* _set_unit_ip writes them, the legacy host key alone, and a declared name
\* that is another unit's.
UnitBags(unit) ==
    LET published == [parca_scrape_unit_name    |-> UnitName(unit),
                      parca_scrape_unit_address |-> Address(unit)]
    IN  CASE unit = "app/0" -> { <<>>, published, [parca_scrape_host |-> Address(unit)] }
          [] unit = "app/1" -> { published,
                                 [parca_scrape_unit_name    |-> UnitName("app/0"),
                                  parca_scrape_unit_address |-> Address(unit)] }
          [] OTHER          -> { published }

\* Identity metadata records (scrape_metadata), as topology.as_dict() gives them.
TopologyApp ==
    [model |-> <<"lma">>, model_uuid |-> <<"f3a1">>, application |-> <<"app">>,
     unit |-> <<"app/0">>]

TopologyAppB ==
    [model |-> <<"lma">>, model_uuid |-> <<"f3a1">>, application |-> <<"app", "_", "b">>,
     unit |-> <<"app_b/0">>]

TopologyDb ==
    [model |-> <<"lma">>, model_uuid |-> <<"f3a1">>, application |-> <<"db">>,
     unit |-> <<"db/0">>]

Metadata(r) == IF r = 1 THEN {TopologyApp} ELSE {TopologyAppB, TopologyDb}

\* Raw job templates a provider can publish.
JobEmpty == <<>>

JobNoGroups == [job_name |-> <<"web">>, static_configs |-> <<>>]

JobWeb ==
    [job_name        |-> <<"web">>,
     static_configs  |-> << [targets |-> << <<"*", ":", "8080">> >>] >>,
     relabel_configs |-> << [source_labels |-> <<"__address__">>, target_label |-> "node"] >>,
     metrics_path    |-> <<"/debug">>]

JobMixed ==
    [static_configs |->
        << [targets |-> << <<"10.1.32.215", ":", "7000">>, <<" ", "*", ":", " ", "8000">> >>,
            labels  |-> [some_key |-> <<"some-value">>, juju_unit |-> <<"mine">>]] >>]

JobBad ==
    [job_name |-> <<"bad">>, static_configs |-> << [targets |-> << <<"bad-target">> >>] >>]

JobTwoGroups ==
    [job_name        |-> <<"b">>,
     scrape_interval |-> <<"10s">>,
     static_configs  |->
        << [targets |-> << <<"*", ":", "7000">>, <<"*", ":", "7001">> >>,
            labels  |-> [tier |-> <<"gold">>, juju_model |-> <<"other">>]],
           [targets |-> << <<"db.example", ":", "9100">> >>],
           [labels  |-> [tier |-> <<"none">>]] >>]

\* The templates the application of each relation can publish.
Templates(r) ==
    IF r = 1 THEN {JobEmpty, JobNoGroups, JobWeb, JobMixed, JobBad, JobTwoGroups}
    ELSE {JobEmpty, JobWeb}

\* Largest number of job templates published over all relations together.
MaxTemplates == 2

SeqsUpTo(S, n) == UNION {[1..k -> S] : k \in 0..n}

TemplatesPublished(data) ==
    LET len(r) == Len(Get(data[r], "scrape_jobs", <<>>))
    IN  len(1) + len(2)

\* A hook of the consumer starts with no jobs() call made yet.
RemoteLeaderPublishesJobs(r, scrape_jobs) ==
    /\ TemplatesPublished([appdata EXCEPT ![r] = Update(@, [scrape_jobs |-> scrape_jobs])])
          <= MaxTemplates
    /\ appdata' = [appdata EXCEPT ![r] = Update(@, [scrape_jobs |-> scrape_jobs])]
    /\ result' = NoCall
    /\ earlier' = NoCall
    /\ UNCHANGED <<unitdata, jobsArg, provider, hookVars, publisherVars, charmVars, metaVars>>

RemoteLeaderPublishesMetadata(r, scrape_metadata) ==
    /\ appdata' = [appdata EXCEPT ![r] = Update(@, [scrape_metadata |-> scrape_metadata])]
    /\ result' = NoCall
    /\ earlier' = NoCall
    /\ UNCHANGED <<unitdata, jobsArg, provider, hookVars, publisherVars, charmVars, metaVars>>

RemoteUnitJoins(r, unit, bag) ==
    /\ unit \notin DOMAIN unitdata[r]
    /\ unitdata' = [unitdata EXCEPT ![r] = Update(@, (unit :> bag))]
    /\ result' = NoCall
    /\ earlier' = NoCall
    /\ UNCHANGED <<appdata, jobsArg, provider, hookVars, publisherVars, charmVars, metaVars>>

RemoteUnitPublishes(r, unit, bag) ==
    /\ unit \in DOMAIN unitdata[r]
    /\ unitdata' = [unitdata EXCEPT ![r] = Update(@, (unit :> bag))]
    /\ result' = NoCall
    /\ earlier' = NoCall
    /\ UNCHANGED <<appdata, jobsArg, provider, hookVars, publisherVars, charmVars, metaVars>>

RemoteUnitDeparts(r, unit) ==
    /\ unit \in DOMAIN unitdata[r]
    /\ unitdata' = [unitdata EXCEPT ![r] = Restrict(@, DOMAIN @ \ {unit})]
    /\ result' = NoCall
    /\ earlier' = NoCall
    /\ UNCHANGED <<appdata, jobsArg, provider, hookVars, publisherVars, charmVars, metaVars>>

-----------------------------------------------------------------------------
(* ProfilingEndpointProvider.__init__: the sanitization of its jobs argument *)

\* Raw jobs given to the constructor: every choice of keys, allowed or not.
RawValues ==
    [job_name        |-> { <<"web">>, <<>> },
     static_configs  |-> { <<>>, << [targets |-> << <<"*", ":", "4080">> >>] >> },
     scrape_interval |-> { <<"10s">> },
     scrape_timeout  |-> { <<"5s">> },
     relabel_configs |-> { << [target_label |-> "node"] >> },
     metrics_path    |-> { <<"/debug">> }]

\* The dicts holding key k with one of its values, or not holding it.
RawItem(k) == { <<>> } \cup { (k :> v) : v \in RawValues[k] }

RawJobs ==
    { Update(Update(Update(Update(Update(a, b), c), d), e), f) :
        a \in RawItem("job_name"), b \in RawItem("static_configs"),
        c \in RawItem("scrape_interval"), d \in RawItem("scrape_timeout"),
        e \in RawItem("relabel_configs"), f \in RawItem("metrics_path") }

\* Largest number of jobs given to the provider's constructor.
MaxProviderJobs == 1

ProviderInit(jobsGiven) ==
    /\ jobsArg' = jobsGiven
    /\ provider' = [_jobs |-> [i \in 1..Len(jobsGiven) |->
                                  _sanitize_scrape_configuration(jobsGiven[i])]]
    /\ UNCHANGED <<appdata, unitdata, result, earlier, hookVars, publisherVars, charmVars, metaVars>>

-----------------------------------------------------------------------------
(* Initial values of the hooks', the publisher's and the charm's variables *)

NoEvent == [name |-> "start", relation |-> 0]

NoUnit == [relation |-> 0, unit |-> ""]

AllUnits == UNION {RemoteUnits(r) : r \in RelationIds}

NeverResolved == [failed |-> FALSE, lastGood |-> <<>>]

NothingWritten == [unit |-> "", leader |-> FALSE, app |-> {}, bags |-> {}, keys |-> {}]

NotConstructed == [class |-> "", relation_name |-> "", raised |-> ""]

-----------------------------------------------------------------------------
(* ProfilingEndpointConsumer: the relation hooks.  Juju runs relation_joined *)
(* when a unit of the related application enters the relation and runs      *)
(* relation_changed for that unit right after it, then relation_changed      *)
(* whenever the unit or its application changes its databag, and            *)
(* relation_departed when the unit leaves.                                   *)

\* The address a unit has after it was rescheduled.
Moved(unit) ==
    CASE unit = "app/0" -> << "10.0.0.9" >>
      [] unit = "app/1" -> << "10.0.0.8" >>
      [] OTHER          -> << "db-9.local" >>

\* The databag as _set_unit_ip writes it.
Publishes(unit, address) ==
    [parca_scrape_unit_name |-> UnitName(unit), parca_scrape_unit_address |-> address]

\* What a unit has published by the time it is seen to join.
JoinBags(unit) ==
    IF unit = "app/0" THEN { <<>>, [parca_scrape_host |-> Address(unit)] }
    ELSE { <<>>, Publishes(unit, Address(unit)) }

\* What a unit's databag can change to: its address, its next address, the
\* next address beside a legacy host key left from before an upgrade, and a
\* declared name that is another unit's.
ChangedBags(unit) ==
    { Publishes(unit, Address(unit)), Publishes(unit, Moved(unit)) }
    \cup (IF unit = "app/0"
          THEN { Update([parca_scrape_host |-> Address(unit)], Publishes(unit, Moved(unit))) }
          ELSE {})
    \cup (IF unit = "app/1"
          THEN { [parca_scrape_unit_name    |-> UnitName("app/0"),
                  parca_scrape_unit_address |-> Address(unit)] }
          ELSE {})

\* The application databags as _set_scrape_job_spec writes them.
AppRecords(r) ==
    IF r = 1
    THEN { [scrape_metadata |-> TopologyApp, scrape_jobs |-> << job >>] :
              job \in {JobMixed, JobTwoGroups} }
    ELSE { [scrape_metadata |-> TopologyDb, scrape_jobs |-> << JobWeb >>] }

\* No observer is registered for relation_joined (lines 387-393).
relation_joined(r, unit, bag) ==
    /\ owed = NoUnit
    /\ unit \notin DOMAIN unitdata[r]
    /\ unitdata' = [unitdata EXCEPT ![r] = Update(@, (unit :> bag))]
    /\ event' = [name |-> "relation_joined", relation |-> r]
    /\ emitted' = <<>>
    /\ owed' = [relation |-> r, unit |-> unit]
    /\ result' = NoCall
    /\ earlier' = NoCall
    /\ UNCHANGED <<appdata, jobsArg, provider, publisherVars, charmVars, metaVars>>

\* Faulty variant: the handler emits nothing.
ChangedWithoutNotification(r, unit, bag) ==
    /\ unit \in DOMAIN unitdata[r]
    /\ IF owed = NoUnit
       THEN bag \in ChangedBags(unit) /\ bag # unitdata[r][unit]
       ELSE owed = [relation |-> r, unit |-> unit]
            /\ bag \in {unitdata[r][unit]} \cup ChangedBags(unit)
    /\ unitdata' = [unitdata EXCEPT ![r] = Update(@, (unit :> bag))]
    /\ event' = [name |-> "relation_changed", relation |-> r]
    /\ emitted' = <<>>
    /\ owed' = NoUnit
    /\ result' = NoCall
    /\ earlier' = NoCall
    /\ UNCHANGED <<appdata, jobsArg, provider, publisherVars, charmVars, metaVars>>

\* relation_changed for a unit: the one owed after its relation_joined, or one
\* run because the unit changed its databag.
on_profiling_provider_relation_changed(r, unit, bag) ==
    /\ unit \in DOMAIN unitdata[r]
    /\ IF owed = NoUnit
       THEN bag \in ChangedBags(unit) /\ bag # unitdata[r][unit]
       ELSE owed = [relation |-> r, unit |-> unit]
            /\ bag \in {unitdata[r][unit]} \cup ChangedBags(unit)
    /\ unitdata' = [unitdata EXCEPT ![r] = Update(@, (unit :> bag))]
    /\ event' = [name |-> "relation_changed", relation |-> r]
    /\ emitted' = << r >>
    /\ owed' = NoUnit
    /\ result' = NoCall
    /\ earlier' = NoCall
    /\ UNCHANGED <<appdata, jobsArg, provider, publisherVars, charmVars, metaVars>>

\* relation_changed run because the related application changed its databag.
on_profiling_provider_relation_changed_app(r, data) ==
    /\ owed = NoUnit
    /\ data # appdata[r]
    /\ appdata' = [appdata EXCEPT ![r] = data]
    /\ event' = [name |-> "relation_changed", relation |-> r]
    /\ emitted' = << r >>
    /\ result' = NoCall
    /\ earlier' = NoCall
    /\ UNCHANGED <<unitdata, owed, jobsArg, provider, publisherVars, charmVars, metaVars>>

_on_profiling_provider_relation_departed(r, unit) ==
    /\ owed = NoUnit
    /\ unit \in DOMAIN unitdata[r]
    /\ unitdata' = [unitdata EXCEPT ![r] = Restrict(@, DOMAIN @ \ {unit})]
    /\ event' = [name |-> "relation_departed", relation |-> r]
    /\ emitted' = << r >>
    /\ result' = NoCall
    /\ earlier' = NoCall
    /\ UNCHANGED <<appdata, owed, jobsArg, provider, publisherVars, charmVars, metaVars>>

-----------------------------------------------------------------------------
(* ProfilingEndpointProvider: the handlers of the units of the related      *)
(* applications, which write the databags the consumer reads.               *)

\* The relation of the application a unit belongs to.
RelationOf(unit) == CHOOSE r \in RelationIds : unit \in RemoteUnits(r)

\* socket.getfqdn(): the fully qualified name of the host when the resolver
\* finds one, and the bare host name it was given when the resolution fails.
Fqdn(unit) ==
    CASE unit = "app/0" -> << "app-0.app-endpoints.lma.svc" >>
      [] unit = "app/1" -> << "app-1.app-endpoints.lma.svc" >>
      [] OTHER          -> << "db-0.db-endpoints.lma.svc" >>

Hostname(unit) ==
    CASE unit = "app/0" -> << "app-0" >>
      [] unit = "app/1" -> << "app-1" >>
      [] OTHER          -> << "db-0" >>

getfqdn(unit, resolves) == IF resolves THEN Fqdn(unit) ELSE Hostname(unit)

\* self.topology.as_dict() on a unit
_scrape_metadata(unit) ==
    [(IF RelationOf(unit) = 1 THEN TopologyApp ELSE TopologyDb) EXCEPT !.unit = UnitName(unit)]

_scrape_jobs == IF Truthy(provider._jobs) THEN provider._jobs ELSE << DEFAULT_JOB >>

\* What the resolutions of a unit have given so far.
Resolved(unit, resolves) ==
    [failed   |-> ~resolves,
     lastGood |-> IF resolves THEN Fqdn(unit) ELSE resolution[unit].lastGood]

\* Faulty variant: the application databag is written without asking is_leader().
SetScrapeJobSpecByAnyUnit(unit, resolves) ==
    LET r == RelationOf(unit)
    IN  /\ unitdata' = [unitdata EXCEPT ![r] =
                           Update(@, (unit :> Update(Get(@, unit, <<>>),
                                                    Publishes(unit, getfqdn(unit, resolves)))))]
        /\ resolution' = [resolution EXCEPT ![unit] = Resolved(unit, resolves)]
        /\ appdata' = [appdata EXCEPT ![r] =
                          Update(@, [scrape_metadata |-> _scrape_metadata(unit),
                                     scrape_jobs     |-> _scrape_jobs])]
        /\ samePublish' = [samePublish EXCEPT ![r] = {unit}]
        /\ written' = [unit |-> unit, leader |-> leader[r] = unit, app |-> {r},
                       bags |-> {<<r, unit>>}, keys |-> DOMAIN Publishes(unit, <<>>)]
        /\ result' = NoCall
        /\ earlier' = NoCall
        /\ UNCHANGED <<leader, jobsArg, provider, hookVars, charmVars, metaVars>>

\* relation_joined, relation_changed, upgrade_charm and leader_elected on a unit
_set_scrape_job_spec(unit, resolves) ==
    LET r == RelationOf(unit)
    IN  /\ unitdata' = [unitdata EXCEPT ![r] =
                           Update(@, (unit :> Update(Get(@, unit, <<>>),
                                                    Publishes(unit, getfqdn(unit, resolves)))))]
        /\ resolution' = [resolution EXCEPT ![unit] = Resolved(unit, resolves)]
        /\ IF leader[r] # unit
           THEN /\ samePublish' = [samePublish EXCEPT ![r] = @ \ {unit}]
                /\ written' = [unit |-> unit, leader |-> FALSE, app |-> {},
                               bags |-> {<<r, unit>>}, keys |-> DOMAIN Publishes(unit, <<>>)]
                /\ UNCHANGED appdata
           ELSE /\ appdata' = [appdata EXCEPT ![r] =
                                  Update(@, [scrape_metadata |-> _scrape_metadata(unit),
                                             scrape_jobs     |-> _scrape_jobs])]
                /\ samePublish' = [samePublish EXCEPT ![r] = {unit}]
                /\ written' = [unit |-> unit, leader |-> TRUE, app |-> {r},
                               bags |-> {<<r, unit>>}, keys |-> DOMAIN Publishes(unit, <<>>)]
        /\ result' = NoCall
        /\ earlier' = NoCall
        /\ UNCHANGED <<leader, jobsArg, provider, hookVars, charmVars, metaVars>>

\* The refresh events (pebble_ready, update_status) on a unit
_set_unit_ip(unit, resolves) ==
    LET r == RelationOf(unit)
    IN  /\ unitdata' = [unitdata EXCEPT ![r] =
                           Update(@, (unit :> Update(Get(@, unit, <<>>),
                                                    Publishes(unit, getfqdn(unit, resolves)))))]
        /\ resolution' = [resolution EXCEPT ![unit] = Resolved(unit, resolves)]
        /\ samePublish' = [samePublish EXCEPT ![r] = @ \ {unit}]
        /\ written' = [unit |-> unit, leader |-> leader[r] = unit, app |-> {},
                       bags |-> {<<r, unit>>}, keys |-> DOMAIN Publishes(unit, <<>>)]
        /\ result' = NoCall
        /\ earlier' = NoCall
        /\ UNCHANGED <<appdata, leader, jobsArg, provider, hookVars, charmVars, metaVars>>

\* Juju makes a unit the leader of its application: is_leader() is true on
\* that unit alone from now on.
is_leader(unit) ==
    /\ leader[RelationOf(unit)] # unit
    /\ leader' = [leader EXCEPT ![RelationOf(unit)] = unit]
    /\ UNCHANGED <<appdata, unitdata, result, earlier, jobsArg, provider,
                   resolution, samePublish, written, hookVars, charmVars, metaVars>>

-----------------------------------------------------------------------------
(* ZincCharm (src/charm.py): the initial admin password *)

\* string.ascii_letters + string.digits
chars ==
    << "a", "b", "c", "d", "e", "f", "g", "h", "i", "j", "k", "l", "m",
       "n", "o", "p", "q", "r", "s", "t", "u", "v", "w", "x", "y", "z",
       "A", "B", "C", "D", "E", "F", "G", "H", "I", "J", "K", "L", "M",
       "N", "O", "P", "Q", "R", "S", "T", "U", "V", "W", "X", "Y", "Z",
       "0", "1", "2", "3", "4", "5", "6", "7", "8", "9" >>

\* range(24)
PasswordLength == 24

\* The draws of secrets.choice that are told apart: draw number i of the
\* run `seed` picks chars[(seed * i + seed) % len(chars)].
MaxSeed == 2

\* Largest number of pebble-ready events and get-admin-password actions.
MaxCharmEvents == 8

_generate_password(seed) ==
    [i \in 1..PasswordLength |-> chars[((seed * i + seed) % Len(chars)) + 1]]

_pebble_layer ==
    [services |->
        [zinc |->
            [override    |-> "replace",
             summary     |-> "zinc",
             command     |-> "/bin/sh -c \"/go/bin/zinc | tee /var/log/zinc.log\"",
             startup     |-> "enabled",
             environment |->
                 [ZINC_DATA_PATH            |-> "/go/bin/data",
                  ZINC_FIRST_ADMIN_USER     |-> "admin",
                  ZINC_FIRST_ADMIN_PASSWORD |-> stored.initial_admin_password,
                  ZINC_PROMETHEUS_ENABLE    |-> TRUE,
                  ZINC_TELEMETRY            |-> FALSE,
                  ZINC_PROFILER             |-> TRUE]]]]

\* The handler's first statement: generate a password if none is stored.
EnsurePassword(seed) ==
    IF ~Truthy(stored.initial_admin_password)
    THEN [stored EXCEPT !.initial_admin_password = _generate_password(seed)]
    ELSE stored

\* Faulty variant: the action generates a password every time.
GetAdminPasswordRegenerates(seed) ==
    /\ Len(layers) + Len(results) < MaxCharmEvents
    /\ stored' = [stored EXCEPT !.initial_admin_password = _generate_password(seed)]
    /\ results' = Append(results, ("admin-password" :> stored'.initial_admin_password))
    /\ UNCHANGED <<layers, appdata, unitdata, result, earlier, jobsArg, provider,
                   hookVars, publisherVars, metaVars>>

_on_zinc_pebble_ready(seed) ==
    /\ Len(layers) + Len(results) < MaxCharmEvents
    /\ stored' = EnsurePassword(seed)
    /\ layers' = Append(layers, _pebble_layer')
    /\ UNCHANGED <<results, appdata, unitdata, result, earlier, jobsArg, provider,
                   hookVars, publisherVars, metaVars>>

_on_get_admin_password(seed) ==
    /\ Len(layers) + Len(results) < MaxCharmEvents
    /\ stored' = EnsurePassword(seed)
    /\ results' = Append(results, ("admin-password" :> stored'.initial_admin_password))
    /\ UNCHANGED <<layers, appdata, unitdata, result, earlier, jobsArg, provider,
                   hookVars, publisherVars, metaVars>>

-----------------------------------------------------------------------------
(* The construction of the library objects: the validation of the relation  *)
(* and the registration of the observers.                                   *)

DEFAULT_RELATION_NAME == "profiling-endpoint"

RELATION_INTERFACE_NAME == "parca_scrape"

\* The metadata.yaml files a charm can have: its relations with their
\* interface and role, its containers and its series.
RelationsDeclared ==
    { <<>> }
    \cup { (DEFAULT_RELATION_NAME :> [interface_name |-> i, role |-> role]) :
             i \in {"parca_scrape", "prometheus_scrape"},
             role \in {"provides", "requires", "peers"} }

MetadataYamls ==
    { [relations  |-> Update(a, b), containers |-> c, series |-> series] :
         a \in RelationsDeclared,
         b \in { <<>>, ("profiling" :> [interface_name |-> "parca_scrape",
                                        role           |-> "requires"]) },
         c \in { <<>>, << <<"zinc", "-", "db">> >> },
         series \in { {}, {"kubernetes"} } }

\* charm.meta.provides and charm.meta.requires
Provides == {name \in DOMAIN meta.relations : meta.relations[name].role = "provides"}

Requires == {name \in DOMAIN meta.relations : meta.relations[name].role = "requires"}

\* Faulty variant: the role is checked before the interface.
ValidateRoleFirst(relation_name, expected_relation_interface, expected_relation_role) ==
    IF relation_name \notin DOMAIN meta.relations THEN "RelationNotFoundError"
    ELSE IF expected_relation_role = "provides" /\ relation_name \notin Provides
    THEN "RelationRoleMismatchError"
    ELSE IF expected_relation_role = "requires" /\ relation_name \notin Requires
    THEN "RelationRoleMismatchError"
    ELSE IF meta.relations[relation_name].interface_name # expected_relation_interface
    THEN "RelationInterfaceMismatchError"
    ELSE IF expected_relation_role \notin {"provides", "requires"} THEN "Exception"
    ELSE ""

\* The exception raised, "" when the function returns.
_validate_relation_by_interface_and_direction(relation_name, expected_relation_interface, expected_relation_role) ==
    IF relation_name \notin DOMAIN meta.relations THEN "RelationNotFoundError"
    ELSE IF meta.relations[relation_name].interface_name # expected_relation_interface
    THEN "RelationInterfaceMismatchError"
    ELSE IF expected_relation_role = "provides"
    THEN (IF relation_name \notin Provides THEN "RelationRoleMismatchError" ELSE "")
    ELSE IF expected_relation_role = "requires"
    THEN (IF relation_name \notin Requires THEN "RelationRoleMismatchError" ELSE "")
    ELSE "Exception"

\* name.replace("-", "_")
Replace(name, old, new) == [i \in 1..Len(name) |-> IF name[i] = old THEN new ELSE name[i]]

\* The events observed to refresh the unit address (lines 730-744).
RefreshEvents(refresh_event) ==
    IF ~Truthy(refresh_event)
    THEN IF Len(meta.containers) = 1
         THEN IF "kubernetes" \in meta.series
              THEN << <<"update_status">> >>
              ELSE << Replace(meta.containers[1], "-", "_") \o << "_pebble_ready" >> >>
         ELSE << <<"update_status">> >>
    ELSE refresh_event

\* The charm is deployed with its metadata.yaml.
metadata_yaml(yaml) ==
    /\ meta = <<>>
    /\ constructed = NotConstructed
    /\ meta' = yaml
    /\ UNCHANGED <<constructed, observers, appdata, unitdata, result, earlier, jobsArg,
                   provider, hookVars, publisherVars, charmVars>>

\* ProfilingEndpointConsumer.__init__ in a new process
ProfilingEndpointConsumer(relation_name) ==
    LET raised == _validate_relation_by_interface_and_direction(
                      relation_name, RELATION_INTERFACE_NAME, "requires")
    IN  /\ meta # <<>>
        /\ constructed' = [class |-> "ProfilingEndpointConsumer",
                           relation_name |-> relation_name, raised |-> raised]
        /\ observers' =
              IF raised # "" THEN {}
              ELSE { << <<relation_name, "relation_changed">>,
                        "on_profiling_provider_relation_changed" >>,
                     << <<relation_name, "relation_departed">>,
                        "_on_profiling_provider_relation_departed" >> }
        /\ UNCHANGED <<meta, appdata, unitdata, result, earlier, jobsArg, provider,
                       hookVars, publisherVars, charmVars>>

\* ProfilingEndpointProvider.__init__ in a new process, with the jobs last given
ProfilingEndpointProvider(relation_name, refresh_event) ==
    LET raised == _validate_relation_by_interface_and_direction(
                      relation_name, RELATION_INTERFACE_NAME, "provides")
        refresh == RefreshEvents(refresh_event)
    IN  /\ meta # <<>>
        /\ constructed' = [class |-> "ProfilingEndpointProvider",
                           relation_name |-> relation_name, raised |-> raised]
        /\ provider' =
              IF raised # "" THEN [_jobs |-> <<>>]
              ELSE [_jobs |-> [i \in 1..Len(jobsArg) |->
                                  _sanitize_scrape_configuration(jobsArg[i])]]
        /\ observers' =
              IF raised # "" THEN {}
              ELSE { << <<relation_name, "relation_joined">>, "_set_scrape_job_spec" >>,
                     << <<relation_name, "relation_changed">>, "_set_scrape_job_spec" >>,
                     << <<"upgrade_charm">>, "_set_scrape_job_spec" >>,
                     << <<"leader_elected">>, "_set_scrape_job_spec" >> }
                   \cup { << refresh[i], "_set_unit_ip" >> : i \in 1..Len(refresh) }
        /\ UNCHANGED <<meta, appdata, unitdata, result, earlier, jobsArg,
                       hookVars, publisherVars, charmVars>>

-----------------------------------------------------------------------------
(* Specifications *)

Init ==
    /\ appdata = [r \in RelationIds |-> <<>>]
    /\ unitdata = [r \in RelationIds |-> <<>>]
    /\ result = NoCall
    /\ jobsArg = <<>>
    /\ provider = [_jobs |-> <<>>]
    /\ earlier = NoCall
    /\ event = NoEvent
    /\ emitted = <<>>
    /\ owed = NoUnit
    /\ leader = [r \in RelationIds |-> ""]
    /\ resolution = [unit \in AllUnits |-> NeverResolved]
    /\ samePublish = [r \in RelationIds |-> {}]
    /\ written = NothingWritten
    /\ stored = [initial_admin_password |-> <<>>]
    /\ layers = <<>>
    /\ results = <<>>
    /\ meta = <<>>
    /\ constructed = NotConstructed
    /\ observers = {}

Next ==
    \/ \E r \in RelationIds : \E scrape_jobs \in SeqsUpTo(Templates(r), MaxTemplates) \ { <<>> } :
          RemoteLeaderPublishesJobs(r, scrape_jobs)
    \/ \E r \in RelationIds : \E scrape_metadata \in Metadata(r) :
          RemoteLeaderPublishesMetadata(r, scrape_metadata)
    \/ \E r \in RelationIds : \E unit \in RemoteUnits(r) : \E bag \in UnitBags(unit) :
          RemoteUnitJoins(r, unit, bag)
    \/ \E r \in RelationIds : \E unit \in RemoteUnits(r) : \E bag \in UnitBags(unit) :
          RemoteUnitPublishes(r, unit, bag)
    \/ \E r \in RelationIds : \E unit \in RemoteUnits(r) : RemoteUnitDeparts(r, unit)
    \/ jobs

Spec == Init /\ [][Next]_vars

\* The consumer's hooks one after the other, each calling jobs() once or more.
NextCalls ==
    \/ Next
    \/ jobsAgain
    \/ NextHook

SpecCalls == Init /\ [][NextCalls]_vars

\* The consumer's relation hooks, each followed by any number of jobs() calls.
NextEvents ==
    \/ \E r \in RelationIds : \E unit \in RemoteUnits(r) : \E bag \in JoinBags(unit) :
          relation_joined(r, unit, bag)
    \/ \E r \in RelationIds : \E unit \in RemoteUnits(r) :
          \E bag \in JoinBags(unit) \cup ChangedBags(unit) :
              on_profiling_provider_relation_changed(r, unit, bag)
    \/ \E r \in RelationIds : \E data \in AppRecords(r) :
          on_profiling_provider_relation_changed_app(r, data)
    \/ \E r \in RelationIds : \E unit \in RemoteUnits(r) :
          _on_profiling_provider_relation_departed(r, unit)
    \/ jobs

SpecEvents == Init /\ [][NextEvents]_vars

\* The units of the related applications run their handlers in any order,
\* resolving their address or failing to, while the consumer calls jobs().
NextPublisher ==
    \/ \E unit \in AllUnits : \E resolves \in BOOLEAN : _set_scrape_job_spec(unit, resolves)
    \/ \E unit \in AllUnits : \E resolves \in BOOLEAN : _set_unit_ip(unit, resolves)
    \/ \E unit \in AllUnits : is_leader(unit)
    \/ \E r \in RelationIds : \E unit \in RemoteUnits(r) : RemoteUnitDeparts(r, unit)
    \/ jobs

SpecPublisher == Init /\ [][NextPublisher]_vars

\* The jobs argument the charm's code gives to the provider's constructor.
JobsConfigured == { <<>>, << JobWeb >>, << JobNoGroups >> }

\* The publisher's side alone: the charm is deployed or upgraded with some
\* jobs argument, Juju elects leaders, and the units run their handlers.
NextLeadership ==
    \/ \E jobsGiven \in JobsConfigured : ProviderInit(jobsGiven)
    \/ \E unit \in AllUnits : \E resolves \in BOOLEAN : _set_scrape_job_spec(unit, resolves)
    \/ \E unit \in AllUnits : \E resolves \in BOOLEAN : _set_unit_ip(unit, resolves)
    \/ \E unit \in AllUnits : is_leader(unit)

SpecLeadership == Init /\ [][NextLeadership]_vars

\* The zinc charm's pebble-ready events and get-admin-password actions.
NextCharm ==
    \/ \E seed \in 0..MaxSeed : _on_zinc_pebble_ready(seed)
    \/ \E seed \in 0..MaxSeed : _on_get_admin_password(seed)

SpecCharm == Init /\ [][NextCharm]_vars

\* A charm with some metadata.yaml constructs the library objects.
RelationNames == {DEFAULT_RELATION_NAME, "profiling", "metrics-endpoint"}

NextConstruct ==
    \/ \E yaml \in MetadataYamls : metadata_yaml(yaml)
    \/ \E relation_name \in RelationNames : ProfilingEndpointConsumer(relation_name)
    \/ \E relation_name \in RelationNames :
          \E refresh_event \in { <<>>, << <<"config_changed">> >> } :
              ProfilingEndpointProvider(relation_name, refresh_event)

SpecConstruct == Init /\ [][NextConstruct]_vars

\* The provider's construction alone, over every raw job.
NextProvider ==
    \E jobsGiven \in SeqsUpTo(RawJobs, MaxProviderJobs) : ProviderInit(jobsGiven)

SpecProvider == Init /\ [][NextProvider]_vars

-----------------------------------------------------------------------------
(* Properties of jobs(), checked under Spec.  result is the outcome of the *)
(* jobs() call of the current hook, made on the relation data as they are. *)

Returned == result.status = "returned"

PublishedJobs(r) == Get(appdata[r], "scrape_jobs", <<>>)

PublishedMetadata(r) == Get(appdata[r], "scrape_metadata", <<>>)

HasUnits(r) == DOMAIN unitdata[r] # {}

\* The relations whose templates the returned call expanded.
Expanded(r) ==
    Returned /\ HasUnits(r) /\ Truthy(PublishedJobs(r)) /\ Truthy(PublishedMetadata(r))

\* The membership snapshot the call worked on.
HostsSeen(r) == _relation_hosts(r, result.order[r])

TemplateOf(r, i) == _sanitize_scrape_configuration(PublishedJobs(r)[i])

TopologyLabels(scrape_metadata) ==
    [juju_model       |-> scrape_metadata.model,
     juju_model_uuid  |-> scrape_metadata.model_uuid,
     juju_application |-> scrape_metadata.application]

ScopeId(scrape_metadata) ==
    scrape_metadata.model \o <<"_">> \o scrape_metadata.model_uuid
        \o <<"_">> \o scrape_metadata.application

\* The name a template of publisher r resolves to.
ResolvedName(r, i) ==
    LET name == Get(PublishedJobs(r)[i], "job_name", <<>>)
    IN  IF name # <<>> THEN ScopeId(PublishedMetadata(r)) \o <<"_">> \o name
        ELSE ScopeId(PublishedMetadata(r))

WildcardPorts(group) == SplitTargets(Get(group, "targets", <<>>)).ports

FullyQualified(group) == SplitTargets(Get(group, "targets", <<>>)).unitless_targets

UnitlessCount(group) == IF FullyQualified(group) # <<>> THEN 1 ELSE 0

\* Number of static entries emitted for the groups before group g, with n members.
RECURSIVE EntriesBefore(_, _, _)
EntriesBefore(groups, g, n) ==
    IF g = 1 THEN 0
    ELSE EntriesBefore(groups, g - 1, n) + UnitlessCount(groups[g - 1]) + n

BaseSourceLabels == <<"juju_model", "juju_model_uuid", "juju_application">>

IsUniquenessRule(rule) ==
    /\ DOMAIN rule = {"source_labels", "separator", "target_label", "regex"}
    /\ rule.separator = "_"
    /\ rule.target_label = "instance"
    /\ rule.regex = "(.*)"

IsPrefix(p, q) == Len(p) <= Len(q) /\ SubSeq(q, 1, Len(p)) = p

\* C1: with a non-empty membership snapshot, the expansion of a template
\* emits, for every target group, exactly one member-derived entry per
\* member, after the group's fully-qualified entry if it has one: its labels
\* are the group's labels, overridden by the topology labels, plus juju_unit
\* = the member's name; its targets are "<address>:<port>" for each wildcard
\* port of that group, or the bare address when the group has none.
C1_OneEntryPerMemberPerGroup ==
    \A r \in RelationIds :
        (Expanded(r) /\ HostsSeen(r) # <<>>) =>
            /\ Len(result.per[r]) = Len(PublishedJobs(r))
            /\ \A i \in 1..Len(PublishedJobs(r)) :
                  LET groups  == TemplateOf(r, i).static_configs
                      hosts   == HostsSeen(r)
                      entries == Get(result.per[r][i], "static_configs", <<>>)
                  IN  /\ Len(entries) = EntriesBefore(groups, Len(groups) + 1, Len(hosts))
                      /\ \A g \in 1..Len(groups) : \A m \in 1..Len(hosts) :
                            LET entry == entries[EntriesBefore(groups, g, Len(hosts))
                                                 + UnitlessCount(groups[g]) + m]
                                ports == WildcardPorts(groups[g])
                            IN  /\ entry.labels =
                                      Update(Update(Get(groups[g], "labels", <<>>),
                                                    TopologyLabels(PublishedMetadata(r))),
                                             [juju_unit |-> hosts[m][1]])
                                /\ entry.targets =
                                      IF ports # <<>>
                                      THEN [p \in 1..Len(ports) |->
                                               hosts[m][2] \o <<":">> \o ports[p]]
                                      ELSE << hosts[m][2] >>

C1_Witness ==
    /\ Expanded(1)
    /\ Len(HostsSeen(1)) = 2
    /\ \E i \in 1..Len(PublishedJobs(1)) :
          /\ PublishedJobs(1)[i] = JobTwoGroups
          /\ Len(result.per[1][i].static_configs) = 7
          /\ result.per[1][i].static_configs[6].targets = << <<"10.0.0.1">> >>

\* The fully-qualified entry of group g of template i of relation r, when the
\* group has fully-qualified targets.
UnitlessEntry(r, i, g) ==
    LET groups == TemplateOf(r, i).static_configs
    IN  result.per[r][i].static_configs[EntriesBefore(groups, g, Len(HostsSeen(r))) + 1]

HasUnitlessEntry(r, i, g) ==
    LET groups == TemplateOf(r, i).static_configs
    IN  /\ UnitlessCount(groups[g]) = 1
        /\ Len(result.per[r]) >= i
        /\ Len(Get(result.per[r][i], "static_configs", <<>>))
              >= EntriesBefore(groups, g, Len(HostsSeen(r))) + 1

\* C2 as stated: whatever labels the group declares, the entry emitted for its
\* fully-qualified targets carries the topology labels and no juju_unit label.
C2_UnitlessNeverHasUnitLabel ==
    \A r \in RelationIds :
        Expanded(r) =>
            \A i \in 1..Len(PublishedJobs(r)) :
                \A g \in 1..Len(TemplateOf(r, i).static_configs) :
                    HasUnitlessEntry(r, i, g) =>
                        LET labels == UnitlessEntry(r, i, g).labels
                            topo   == TopologyLabels(PublishedMetadata(r))
                        IN  /\ \A k \in DOMAIN topo : k \in DOMAIN labels /\ labels[k] = topo[k]
                            /\ "juju_unit" \notin DOMAIN labels

\* C2 amended: the entry emitted for a group's fully-qualified targets lists
\* those targets unchanged and its labels are the group's declared labels
\* overridden by the topology labels; the expansion adds no juju_unit label to
\* it, so it carries one exactly when the group's own labels declare one.
C2_UnitlessLabelsAreGroupPlusTopology ==
    \A r \in RelationIds :
        Expanded(r) =>
            \A i \in 1..Len(PublishedJobs(r)) :
                LET groups == TemplateOf(r, i).static_configs
                IN  \A g \in 1..Len(groups) :
                        UnitlessCount(groups[g]) = 1 =>
                            /\ HasUnitlessEntry(r, i, g)
                            /\ UnitlessEntry(r, i, g).targets = FullyQualified(groups[g])
                            /\ UnitlessEntry(r, i, g).labels =
                                  Update(Get(groups[g], "labels", <<>>),
                                         TopologyLabels(PublishedMetadata(r)))
                            /\ ("juju_unit" \in DOMAIN UnitlessEntry(r, i, g).labels)
                                  <=> ("juju_unit" \in DOMAIN Get(groups[g], "labels", <<>>))

C2_Witness ==
    /\ Expanded(1)
    /\ PublishedJobs(1) = << JobMixed >>
    /\ Len(HostsSeen(1)) = 1
    /\ result.per[1][1].static_configs[1].targets = << <<"10.1.32.215", ":", "7000">> >>
    /\ result.per[1][1].static_configs[1].labels.juju_unit = <<"mine">>
    /\ result.per[1][1].static_configs[1].labels.juju_model = <<"lma">>
    /\ result.per[1][1].static_configs[2].labels.juju_unit = HostsSeen(1)[1][1]

JobNamesDiffer ==
    \A i, j \in 1..Len(result.jobs) :
        i # j => Get(result.jobs[i], "job_name", None) # Get(result.jobs[j], "job_name", None)

\* C3 as stated: any two jobs of one returned list (that carry a job_name)
\* have different job_name values, whatever the publishers and their templates.
C3_JobNamesUnique ==
    Returned =>
        \A i, j \in 1..Len(result.jobs) :
            (i # j /\ "job_name" \in DOMAIN result.jobs[i] /\ "job_name" \in DOMAIN result.jobs[j])
                => result.jobs[i].job_name # result.jobs[j].job_name

Contributes(r) == HasUnits(r) /\ Truthy(PublishedJobs(r))

\* C3 amended: the job names of one returned list differ provided that every
\* contributing publisher has identity metadata, that the templates of one
\* publisher have pairwise different names (at most one nameless), and that
\* the scope identifiers of two publishers differ and none, followed by "_",
\* begins the other.
C3_JobNamesUniqueWhenNamesAndScopesDiffer ==
    ( /\ Returned
      /\ \A r \in RelationIds :
            Contributes(r) =>
                /\ Truthy(PublishedMetadata(r))
                /\ \A i, j \in 1..Len(PublishedJobs(r)) :
                      i # j => Get(PublishedJobs(r)[i], "job_name", None)
                                  # Get(PublishedJobs(r)[j], "job_name", None)
      /\ \A r, s \in RelationIds :
            (r # s /\ Contributes(r) /\ Contributes(s)) =>
                /\ ScopeId(PublishedMetadata(r)) # ScopeId(PublishedMetadata(s))
                /\ ~IsPrefix(ScopeId(PublishedMetadata(r)) \o <<"_">>,
                             ScopeId(PublishedMetadata(s))) )
    => JobNamesDiffer

C3_Witness ==
    /\ Expanded(1) /\ Expanded(2)
    /\ PublishedJobs(1) = << JobWeb >>
    /\ PublishedJobs(2) = << JobWeb >>
    /\ PublishedMetadata(2) = TopologyDb
    /\ Len(result.jobs) = 2
    /\ result.jobs[1].job_name = <<"lma", "_", "f3a1", "_", "app", "_", "web">>
    /\ result.jobs[2].job_name = <<"lma", "_", "f3a1", "_", "db", "_", "web">>

\* C4: a template with a malformed target is rejected alone: the jobs() call
\* returns, and its list holds the concrete job of every well-formed template
\* of every publisher that has units and identity metadata.
C4_MalformedTemplateRejectedAlone ==
    result.status # "none" =>
        /\ Returned
        /\ \A r \in RelationIds :
              (HasUnits(r) /\ Truthy(PublishedMetadata(r))) =>
                  \A i \in 1..Len(PublishedJobs(r)) :
                      ~RaisesValueError(TemplateOf(r, i)) =>
                          \E k \in 1..Len(result.jobs) :
                              Get(result.jobs[k], "job_name", None) = ResolvedName(r, i)

\* C5 as stated: a publisher without job templates or without identity
\* metadata contributes no entry to the returned list.
C5_NothingWithoutTemplatesOrMetadata ==
    Returned =>
        \A r \in RelationIds :
            (~Truthy(PublishedJobs(r)) \/ ~Truthy(PublishedMetadata(r)))
                => result.per[r] = <<>>

\* C5 amended: a publisher without job templates (or without units)
\* contributes no entry; a publisher with units and templates but without
\* identity metadata contributes its templates exactly as published; neither
\* makes jobs() raise: a call raises only for a malformed target of a
\* publisher that has units, templates and metadata.
C5_NothingWithoutTemplatesRawWithoutMetadata ==
    /\ Returned =>
          /\ result.jobs = result.per[1] \o result.per[2]
          /\ \A r \in RelationIds :
                /\ (~HasUnits(r) \/ ~Truthy(PublishedJobs(r))) => result.per[r] = <<>>
                /\ (HasUnits(r) /\ Truthy(PublishedJobs(r)) /\ ~Truthy(PublishedMetadata(r)))
                      => result.per[r] = PublishedJobs(r)
    /\ result.status = "raised" =>
          \E r \in RelationIds :
              /\ HasUnits(r) /\ Truthy(PublishedJobs(r)) /\ Truthy(PublishedMetadata(r))
              /\ \E i \in 1..Len(PublishedJobs(r)) : RaisesValueError(TemplateOf(r, i))

C5_Witness ==
    /\ Returned
    /\ HasUnits(1) /\ PublishedJobs(1) = << JobWeb, JobBad >> /\ ~Truthy(PublishedMetadata(1))
    /\ HasUnits(2) /\ ~Truthy(PublishedJobs(2)) /\ Truthy(PublishedMetadata(2))
    /\ result.jobs = << JobWeb, JobBad >>

\* No unit of the relation has published an address: its membership snapshot is empty.
NoAddress(r) ==
    \A u \in DOMAIN unitdata[r] :
        /\ Get(unitdata[r][u], "parca_scrape_unit_address", <<>>) = <<>>
        /\ Get(unitdata[r][u], "parca_scrape_host", <<>>) = <<>>

WildcardOnly(template) ==
    /\ ~RaisesValueError(template)
    /\ template.static_configs # <<>>
    /\ \A g \in 1..Len(template.static_configs) :
          /\ FullyQualified(template.static_configs[g]) = <<>>
          /\ WildcardPorts(template.static_configs[g]) # <<>>

\* Template i of relation r was emitted with its resolved name, no static
\* entry and a last relabel rule whose source labels have no juju_unit.
EmittedWithoutEntries(r, i) ==
    /\ Len(result.per[r]) >= i
    /\ Get(result.per[r][i], "job_name", None) = ResolvedName(r, i)
    /\ Get(result.per[r][i], "static_configs", None) = <<>>
    /\ LET rules == Get(result.per[r][i], "relabel_configs", <<>>)
       IN  /\ rules # <<>>
           /\ IsUniquenessRule(rules[Len(rules)])
           /\ rules[Len(rules)].source_labels = BaseSourceLabels

\* C6 as stated: with metadata, a wildcard-only template and an empty
\* membership snapshot, the returned list still holds that job, with its
\* resolved name, no static entry and its relabel rules.
C6_EmittedOnEmptyMembership ==
    Returned =>
        \A r \in RelationIds :
            (Truthy(PublishedMetadata(r)) /\ NoAddress(r)) =>
                \A i \in 1..Len(PublishedJobs(r)) :
                    WildcardOnly(TemplateOf(r, i)) => EmittedWithoutEntries(r, i)

\* C6 amended: the job is emitted that way when the relation has at least one
\* unit and none of its units has published an address; a relation with no
\* unit at all contributes nothing.
C6_EmittedWhenUnitsHaveNoAddress ==
    Returned =>
        \A r \in RelationIds :
            /\ (HasUnits(r) /\ Truthy(PublishedMetadata(r)) /\ NoAddress(r)) =>
                  \A i \in 1..Len(PublishedJobs(r)) :
                      WildcardOnly(TemplateOf(r, i)) => EmittedWithoutEntries(r, i)
            /\ ~HasUnits(r) => result.per[r] = <<>>

C6_Witness ==
    /\ Returned
    /\ DOMAIN unitdata[1] = {"app/0"} /\ unitdata[1]["app/0"] = <<>>
    /\ PublishedMetadata(1) = TopologyApp
    /\ PublishedJobs(1) = << JobWeb, JobEmpty >>
    /\ result.per[1][1].job_name = <<"lma", "_", "f3a1", "_", "app", "_", "web">>
    /\ result.per[1][1].static_configs = <<>>
    /\ result.per[1][2].job_name = <<"lma", "_", "f3a1", "_", "app">>

\* C7: in every expanded job the last relabel rule's source_labels are
\* juju_model, juju_model_uuid, juju_application, followed by juju_unit, once,
\* exactly when the job has at least one member-derived static entry.
C7_UnitSourceLabelIffMemberEntries ==
    \A r \in RelationIds :
        Expanded(r) =>
            /\ Len(result.per[r]) = Len(PublishedJobs(r))
            /\ \A i \in 1..Len(PublishedJobs(r)) :
                  LET groups == TemplateOf(r, i).static_configs
                      rules  == Get(result.per[r][i], "relabel_configs", <<>>)
                      memberEntries ==
                          Len(Get(result.per[r][i], "static_configs", <<>>))
                              > EntriesBefore(groups, Len(groups) + 1, 0)
                  IN  /\ rules # <<>>
                      /\ rules[Len(rules)].source_labels =
                            IF memberEntries THEN BaseSourceLabels \o <<"juju_unit">>
                            ELSE BaseSourceLabels

C7_Witness ==
    /\ Expanded(1)
    /\ Len(HostsSeen(1)) = 2
    /\ PublishedJobs(1) = << JobTwoGroups, JobNoGroups >>
    /\ result.per[1][1].relabel_configs[1].source_labels
          = <<"juju_model", "juju_model_uuid", "juju_application", "juju_unit">>
    /\ result.per[1][2].relabel_configs[1].source_labels
          = <<"juju_model", "juju_model_uuid", "juju_application">>

\* C8 as stated: in every job of the returned list, relabel_configs is the
\* relabeling rules of the template given to the expansion (the sanitized
\* template), in order, followed by one uniqueness rule, which is last.
C8_TemplateRulesThenUniquenessRule ==
    Returned =>
        \A r \in RelationIds :
            \A i \in 1..Len(result.per[r]) :
                LET own   == Get(TemplateOf(r, i), "relabel_configs", <<>>)
                    rules == Get(result.per[r][i], "relabel_configs", <<>>)
                IN  /\ Len(rules) = Len(own) + 1
                    /\ SubSeq(rules, 1, Len(own)) = own
                    /\ IsUniquenessRule(rules[Len(rules)])

\* C8 amended: in every job produced by expansion, relabel_configs is exactly
\* one rule, the uniqueness rule (separator "_", target label "instance",
\* regex "(.*)"): the template's own relabeling rules are dropped by the
\* sanitization that precedes the expansion.  The templates of a publisher
\* without identity metadata are returned as published, with no rule appended.
C8_OnlyTheUniquenessRule ==
    Returned =>
        \A r \in RelationIds :
            /\ Expanded(r) =>
                  /\ Len(result.per[r]) = Len(PublishedJobs(r))
                  /\ \A i \in 1..Len(result.per[r]) :
                        LET rules == Get(result.per[r][i], "relabel_configs", <<>>)
                        IN  Len(rules) = 1 /\ IsUniquenessRule(rules[1])
            /\ (Contributes(r) /\ ~Truthy(PublishedMetadata(r))) =>
                  /\ Len(result.per[r]) = Len(PublishedJobs(r))
                  /\ \A i \in 1..Len(result.per[r]) :
                        Get(result.per[r][i], "relabel_configs", <<>>)
                            = Get(PublishedJobs(r)[i], "relabel_configs", <<>>)

C8_Witness ==
    /\ Expanded(1)
    /\ PublishedJobs(1) = << JobWeb >>
    /\ Len(JobWeb.relabel_configs) = 1
    /\ Len(result.per[1][1].relabel_configs) = 1
    /\ IsUniquenessRule(result.per[1][1].relabel_configs[1])
    /\ "metrics_path" \notin DOMAIN result.per[1][1]

-----------------------------------------------------------------------------
(* Properties of the sanitizer, checked under SpecProvider *)

\* The single default target group: one wildcard target "*:80", no labels.
DefaultGroups == << [targets |-> << <<"*", ":", "80">> >>] >>

\* C9 as stated: whenever the raw job has no target groups (static_configs
\* absent, or present with zero groups), the sanitized template's target
\* groups are exactly the single default group.
C9_DefaultGroupWheneverNoGroups ==
    \A i \in 1..Len(provider._jobs) :
        (~Truthy(Get(jobsArg[i], "static_configs", <<>>)))
            => /\ "static_configs" \in DOMAIN provider._jobs[i]
               /\ provider._jobs[i].static_configs = DefaultGroups

\* C9 amended: a raw job without a static_configs key is given exactly the
\* single default group; a static_configs key that is present is kept as it
\* is, an empty list of groups included.
C9_DefaultGroupWhenKeyAbsent ==
    /\ Len(provider._jobs) = Len(jobsArg)
    /\ \A i \in 1..Len(provider._jobs) :
          /\ "static_configs" \in DOMAIN provider._jobs[i]
          /\ provider._jobs[i].static_configs =
                IF "static_configs" \in DOMAIN jobsArg[i]
                THEN jobsArg[i].static_configs
                ELSE DefaultGroups

C9_Witness ==
    /\ Len(jobsArg) = 1
    /\ DOMAIN jobsArg[1] = {"job_name", "scrape_interval", "relabel_configs"}
    /\ Len(provider._jobs) = 1
    /\ provider._jobs[1].static_configs = DefaultGroups

\* C10: the keys of a sanitized job are allow-listed keys; every allow-listed
\* key of the raw job keeps its value, every other key of the raw job is
\* dropped, and every raw job is sanitized (none fails).
C10_OnlyAllowListedKeysSurvive ==
    /\ Len(provider._jobs) = Len(jobsArg)
    /\ \A i \in 1..Len(provider._jobs) :
          /\ DOMAIN provider._jobs[i] \subseteq ALLOWED_KEYS
          /\ \A k \in DOMAIN jobsArg[i] \cap ALLOWED_KEYS :
                k \in DOMAIN provider._jobs[i] /\ provider._jobs[i][k] = jobsArg[i][k]
          /\ \A k \in DOMAIN jobsArg[i] \ ALLOWED_KEYS : k \notin DOMAIN provider._jobs[i]

C10_Witness ==
    /\ Len(jobsArg) = 1
    /\ {"relabel_configs", "metrics_path", "job_name", "scrape_timeout"} \subseteq DOMAIN jobsArg[1]
    /\ Len(provider._jobs) = 1
    /\ DOMAIN provider._jobs[1] = {"job_name", "scrape_timeout", "static_configs"}

-----------------------------------------------------------------------------
(* Properties of successive jobs() calls, checked under SpecCalls. *)

\* Both the last call and the one before it, made on the same relation data.
TwoCalls == result.status # "none" /\ earlier.status # "none"

\* C11 as stated: two jobs() calls on unchanged relation data return equal
\* lists in the same order (or fail alike), whichever hooks they are made in.
C11_CallsReturnEqualLists ==
    TwoCalls =>
        /\ result.status = earlier.status
        /\ Returned => result.jobs = earlier.jobs

-----------------------------------------------------------------------------
(* Further properties of jobs(), checked under Spec. *)

\* The identity metadata as topology.as_dict() gives them on another unit of
\* the same application: only the unit differs.
PublishedBy(scrape_metadata, unit) == [scrape_metadata EXCEPT !.unit = unit]

Publishers == { <<"app/0">>, <<"app/1">>, <<"app_b/0">>, <<"db/0">>, <<>> }

\* C15: the concrete jobs of a publisher do not depend on which of its members
\* published the identity metadata: with the metadata of any other member
\* (same model, model UUID and application) the expansion of the same
\* templates over the same membership gives exactly the jobs that were
\* returned, names, labels and uniqueness rule included.
C15_JobsIndependentOfPublishingMember ==
    \A r \in RelationIds :
        Expanded(r) =>
            \A unit \in Publishers :
                LET other == PublishedBy(PublishedMetadata(r), unit)
                IN  LabeledJobConfigs(PublishedJobs(r), identifier(other), HostsSeen(r), other)
                        = Return(result.per[r])

C15_Witness ==
    /\ Expanded(1)
    /\ PublishedMetadata(1).unit = <<"app/0">>
    /\ Len(HostsSeen(1)) = 2
    /\ \E i \in 1..Len(PublishedJobs(1)) :
          /\ PublishedJobs(1)[i] = JobMixed
          /\ Len(result.per[1][i].static_configs) = 3
          /\ result.per[1][i].static_configs[1].labels.juju_unit = <<"mine">>
          /\ result.per[1][i].static_configs[3].labels.juju_unit # <<"mine">>

\* The static entries the expansion is to emit, in order: for each group in
\* turn, its fully-qualified entry if it has fully-qualified targets, then
\* one entry per member.
RECURSIVE Layout(_, _, _)
Layout(groups, g, hosts) ==
    IF g > Len(groups) THEN <<>>
    ELSE (IF FullyQualified(groups[g]) # <<>>
          THEN << [kind |-> "unitless", group |-> g, member |-> 0] >>
          ELSE <<>>)
         \o [m \in 1..Len(hosts) |-> [kind |-> "unit", group |-> g, member |-> m]]
         \o Layout(groups, g + 1, hosts)

\* An entry built from the address of a member.
IsMemberEntry(entry, hosts) ==
    \E m \in 1..Len(hosts) :
        /\ Get(entry.labels, "juju_unit", <<>>) = hosts[m][1]
        /\ \A t \in 1..Len(entry.targets) : IsPrefix(hosts[m][2], entry.targets[t])

\* C19 as stated: in the static_configs of every concrete job no
\* member-derived entry precedes a fully-qualified entry.
C19_FullyQualifiedEntriesFirst ==
    \A r \in RelationIds :
        Expanded(r) =>
            \A i \in 1..Len(result.per[r]) :
                LET entries == Get(result.per[r][i], "static_configs", <<>>)
                IN  \A k1, k2 \in 1..Len(entries) :
                        (k1 < k2 /\ IsMemberEntry(entries[k1], HostsSeen(r)))
                            => IsMemberEntry(entries[k2], HostsSeen(r))

\* C19, amended: the entries come group by group, in the order of the
\* template's groups; within one group the fully-qualified entry, if any,
\* comes first and is followed by one entry per member in the iteration order
\* of the membership snapshot.
C19_FullyQualifiedFirstWithinEachGroup ==
    \A r \in RelationIds :
        Expanded(r) =>
            \A i \in 1..Len(result.per[r]) :
                LET entries == Get(result.per[r][i], "static_configs", <<>>)
                    groups  == TemplateOf(r, i).static_configs
                    hosts   == HostsSeen(r)
                    layout  == Layout(groups, 1, hosts)
                IN  /\ Len(entries) = Len(layout)
                    /\ \A k \in 1..Len(layout) :
                          IF layout[k].kind = "unit"
                          THEN /\ IsMemberEntry(entries[k], hosts)
                               /\ entries[k].labels.juju_unit = hosts[layout[k].member][1]
                          ELSE /\ ~IsMemberEntry(entries[k], hosts)
                               /\ entries[k].targets = FullyQualified(groups[layout[k].group])

C19_Witness ==
    /\ Expanded(1)
    /\ Len(HostsSeen(1)) = 2
    /\ \E i \in 1..Len(PublishedJobs(1)) :
          /\ PublishedJobs(1)[i] = JobTwoGroups
          /\ Len(result.per[1][i].static_configs) = 7
          /\ IsMemberEntry(result.per[1][i].static_configs[2], HostsSeen(1))
          /\ result.per[1][i].static_configs[3].targets = << <<"db.example", ":", "9100">> >>

\* The labels of an entry other than the ones the expansion sets itself.
UserLabels(labels) ==
    Restrict(labels, DOMAIN labels \ {"juju_model", "juju_model_uuid", "juju_application",
                                      "juju_unit"})

\* The ports named by the "<address>:<port>" targets of an entry, in order.
EntryPorts(entry) ==
    LET withPort == SelectSeq(entry.targets, Unpacks)
    IN  [t \in 1..Len(withPort) |-> Split(withPort[t], ":")[2]]

Range(seq) == {seq[k] : k \in 1..Len(seq)}

\* C20: the entries emitted for one target group are built from that group
\* alone.  A member-derived entry names exactly the group's own wildcard
\* ports, in order, and the fully-qualified entry lists exactly the group's own
\* fully-qualified targets; both carry exactly the group's own user labels.
\* No port, target or user label that only another group declares appears.
C20_EntriesBuiltFromTheirOwnGroup ==
    \A r \in RelationIds :
        Expanded(r) =>
            \A i \in 1..Len(result.per[r]) :
                LET entries == Get(result.per[r][i], "static_configs", <<>>)
                    groups  == TemplateOf(r, i).static_configs
                    layout  == Layout(groups, 1, HostsSeen(r))
                    labelsOf(h) == UserLabels(Get(groups[h], "labels", <<>>))
                IN  /\ Len(entries) = Len(layout)
                    /\ \A k \in 1..Len(layout) :
                          LET g == layout[k].group
                          IN  /\ UserLabels(entries[k].labels) = labelsOf(g)
                              /\ IF layout[k].kind = "unit"
                                 THEN EntryPorts(entries[k]) = WildcardPorts(groups[g])
                                 ELSE entries[k].targets = FullyQualified(groups[g])
                              /\ \A h \in (1..Len(groups)) \ {g} :
                                    /\ \A p \in Range(WildcardPorts(groups[h]))
                                                  \ Range(WildcardPorts(groups[g])) :
                                          p \notin Range(EntryPorts(entries[k]))
                                    /\ \A t \in Range(FullyQualified(groups[h]))
                                                  \ Range(FullyQualified(groups[g])) :
                                          t \notin Range(entries[k].targets)
                                    /\ \A key \in DOMAIN labelsOf(h) :
                                          (key \in DOMAIN entries[k].labels
                                              /\ entries[k].labels[key] = labelsOf(h)[key])
                                          => (key \in DOMAIN labelsOf(g)
                                              /\ labelsOf(g)[key] = labelsOf(h)[key])

C20_Witness ==
    /\ Expanded(1)
    /\ Len(HostsSeen(1)) = 2
    /\ \E i \in 1..Len(PublishedJobs(1)) :
          /\ PublishedJobs(1)[i] = JobTwoGroups
          /\ Len(result.per[1][i].static_configs) = 7
          /\ EntryPorts(result.per[1][i].static_configs[1]) = << <<"7000">>, <<"7001">> >>
          /\ result.per[1][i].static_configs[1].labels.tier = <<"gold">>
          /\ "tier" \notin DOMAIN result.per[1][i].static_configs[3].labels
          /\ EntryPorts(result.per[1][i].static_configs[4]) = <<>>
          /\ result.per[1][i].static_configs[6].labels.tier = <<"none">>

-----------------------------------------------------------------------------
(* Properties of the consumer's relation hooks, checked under SpecEvents. *)

\* The name and the address a unit of relation r publishes now: its declared
\* name or else its unit name, its address key or else its legacy host key.
CurrentName(r, unit) ==
    IF Get(unitdata[r][unit], "parca_scrape_unit_name", <<>>) # <<>>
    THEN unitdata[r][unit].parca_scrape_unit_name
    ELSE << unit >>

CurrentAddress(r, unit) ==
    IF Get(unitdata[r][unit], "parca_scrape_unit_address", <<>>) # <<>>
    THEN unitdata[r][unit].parca_scrape_unit_address
    ELSE Get(unitdata[r][unit], "parca_scrape_host", <<>>)

\* The units of relation r that are valid members now.
ValidMembers(r) == {unit \in DOMAIN unitdata[r] : CurrentAddress(r, unit) # <<>>}

\* The address an entry's targets are built on.
EntryAddress(entry) == Split(entry.targets[1], ":")[1]

C13_MembershipChangeIsNotified ==
    [][ /\ \A r \in RelationIds :
              unitdata'[r] # unitdata[r] =>
                  \/ emitted' = << r >>
                  \/ event'.name = "relation_joined" /\ owed'.relation = r
        /\ (owed # NoUnit /\ event' # event) =>
              (event'.name = "relation_changed" /\ emitted' = << owed.relation >>)
      ]_vars

\* The relation_changed hook owed to db/0 after it joined, its databag still empty.
C13_Witness ==
    /\ event = [name |-> "relation_changed", relation |-> 2]
    /\ emitted = << 2 >>
    /\ owed = NoUnit
    /\ DOMAIN unitdata[2] = {"db/0"}
    /\ unitdata[2]["db/0"] = <<>>
    /\ appdata[2] = <<>>

-----------------------------------------------------------------------------
(* Properties of the publisher's handlers, checked under SpecPublisher. *)

\* C14 as stated: a unit whose last address resolution failed has, in its
\* databag, the address of its last successful resolution (none if it never
\* had one): the failed resolution published nothing.
C14_FailedResolutionKeepsLastAddress ==
    \A r \in RelationIds : \A unit \in DOMAIN unitdata[r] :
        resolution[unit].failed =>
            Get(unitdata[r][unit], "parca_scrape_unit_address", <<>>)
                = resolution[unit].lastGood

\* The units whose name the member-derived entries of a job carry.
UnitsCombined(r, job) ==
    {unit \in RemoteUnits(r) :
        \E k \in 1..Len(job.static_configs) :
            Get(job.static_configs[k].labels, "juju_unit", <<>>) = UnitName(unit)}

\* C16 as stated: the member records that jobs() combines with the identity
\* metadata of a publisher were all written in the hook that wrote those
\* metadata, and belong to that publisher.
C16_MembershipAndMetadataOfOnePublish ==
    \A r \in RelationIds :
        Expanded(r) =>
            \A i \in 1..Len(result.per[r]) :
                UnitsCombined(r, result.per[r][i]) \subseteq samePublish[r]

\* C16, amended: jobs() combines, for each publisher, the application record
\* as its leader last wrote it (metadata and templates, always together) with
\* the member records as each unit last wrote them, whichever hooks wrote
\* them.  Every job of a publisher is named and labelled after that
\* publisher's metadata, and its member-derived entries carry the name and
\* the address of units of that publisher only.
C16_EachJobFromOnePublisherLatestRecords ==
    /\ \A r \in RelationIds :
          "scrape_metadata" \in DOMAIN appdata[r] <=> "scrape_jobs" \in DOMAIN appdata[r]
    /\ \A r \in RelationIds :
          Expanded(r) =>
              \A i \in 1..Len(result.per[r]) :
                  LET job    == result.per[r][i]
                      md     == appdata[r].scrape_metadata
                      layout == Layout(TemplateOf(r, i).static_configs, 1, HostsSeen(r))
                  IN  /\ "job_name" \in DOMAIN job
                      /\ IsPrefix(ScopeId(md), job.job_name)
                      /\ Len(job.static_configs) = Len(layout)
                      /\ \A k \in 1..Len(layout) :
                            LET entry == job.static_configs[k]
                            IN  /\ "labels" \in DOMAIN entry
                                /\ \A key \in DOMAIN TopologyLabels(md) :
                                      entry.labels[key] = TopologyLabels(md)[key]
                                /\ layout[k].kind = "unit" =>
                                      \E unit \in DOMAIN unitdata[r] :
                                          /\ entry.labels.juju_unit = CurrentName(r, unit)
                                          /\ EntryAddress(entry) = CurrentAddress(r, unit)

\* Both publishers expanded; the metadata of the first were written by app/0,
\* which was leader then, the record of app/1 in another hook, and app/1 is
\* the leader now.
C16_Witness ==
    /\ Expanded(1) /\ Expanded(2)
    /\ appdata[1].scrape_metadata.unit = UnitName("app/0")
    /\ leader[1] = "app/1"
    /\ samePublish[1] = {"app/0"}
    /\ UnitsCombined(1, result.per[1][1]) = {"app/0", "app/1"}
    /\ UnitsCombined(2, result.per[2][1]) = {"db/0"}

-----------------------------------------------------------------------------
(* Properties of the zinc charm, checked under SpecCharm. *)

\* C17: whatever pebble-ready events and get-admin-password actions came, in
\* whatever order, the stored password is the one that every action so far
\* returned and that every Pebble layer so far carried as
\* ZINC_FIRST_ADMIN_PASSWORD: it has not changed since it was generated, and
\* it is 24 characters of [A-Za-z0-9].
C17_AdminPasswordNeverChanges ==
    LET password == stored.initial_admin_password
    IN  /\ \A i \in 1..Len(results) : results[i]["admin-password"] = password
        /\ \A i \in 1..Len(layers) :
              layers[i].services.zinc.environment.ZINC_FIRST_ADMIN_PASSWORD = password
        /\ (results # <<>> \/ layers # <<>>) =>
              /\ Len(password) = 24
              /\ \A i \in 1..Len(password) : \E c \in 1..Len(chars) : password[i] = chars[c]

C17_Witness ==
    /\ Len(results) >= 2
    /\ Len(layers) >= 2
    /\ stored.initial_admin_password[1] # stored.initial_admin_password[2]
    /\ results[1]["admin-password"] = stored.initial_admin_password
    /\ layers[2].services.zinc.environment.ZINC_FIRST_ADMIN_PASSWORD
          = stored.initial_admin_password

-----------------------------------------------------------------------------
(* Properties of the construction, checked under SpecConstruct. *)

\* The role a class expects of its relation.
ExpectedRole(class) == IF class = "ProfilingEndpointConsumer" THEN "requires" ELSE "provides"

\* C18: the construction of a consumer or of a provider raises
\* RelationNotFoundError when the relation name is not declared, else
\* RelationInterfaceMismatchError when the relation declares another
\* interface than parca_scrape, else RelationRoleMismatchError when the
\* relation has not the role the class expects, and succeeds otherwise; when
\* it raises, no observer has been registered.
C18_ConstructionValidatesFirst ==
    constructed # NotConstructed =>
        LET name == constructed.relation_name
        IN  /\ constructed.raised =
                  IF name \notin DOMAIN meta.relations THEN "RelationNotFoundError"
                  ELSE IF meta.relations[name].interface_name # "parca_scrape"
                  THEN "RelationInterfaceMismatchError"
                  ELSE IF meta.relations[name].role # ExpectedRole(constructed.class)
                  THEN "RelationRoleMismatchError"
                  ELSE ""
            /\ constructed.raised # "" <=> observers = {}

\* A provider constructed on a relation with both the wrong interface and the
\* wrong role.
C18_Witness ==
    /\ constructed = [class |-> "ProfilingEndpointProvider",
                      relation_name |-> "profiling-endpoint",
                      raised |-> "RelationInterfaceMismatchError"]
    /\ meta.relations["profiling-endpoint"] =
          [interface_name |-> "prometheus_scrape", role |-> "requires"]
    /\ observers = {}

-----------------------------------------------------------------------------
(* Properties of _relation_hosts, checked under SpecEvents. *)

\* The place in the iteration order of the last valid member named `name`.
LastNamed(r, order, name) ==
    CHOOSE i \in 1..Len(order) :
        /\ order[i] \in ValidMembers(r)
        /\ CurrentName(r, order[i]) = name
        /\ \A j \in (i+1)..Len(order) :
              ~(order[j] \in ValidMembers(r) /\ CurrentName(r, order[j]) = name)

\* C21: the map _relation_hosts returned to the jobs() call holds every name
\* once, and its names are exactly those of the units whose name and address
\* are both non-empty: the declared parca_scrape_unit_name or else the unit
\* name, with parca_scrape_unit_address or else the legacy parca_scrape_host.
\* No entry has an empty name or address, and a name that several units
\* publish carries the address of the last of them the loop visited.
C21_RelationHostsHoldsValidMembers ==
    \A r \in RelationIds :
        Expanded(r) =>
            LET order == result.order[r]
                hosts == HostsSeen(r)
            IN  /\ \A i, j \in 1..Len(hosts) : hosts[i][1] = hosts[j][1] => i = j
                /\ {hosts[i][1] : i \in 1..Len(hosts)}
                      = {CurrentName(r, unit) : unit \in ValidMembers(r)}
                /\ \A i \in 1..Len(hosts) :
                      /\ hosts[i][1] # <<>>
                      /\ hosts[i][2] # <<>>
                      /\ hosts[i][2]
                            = CurrentAddress(r, order[LastNamed(r, order, hosts[i][1])])

\* A call that visited app/0, which kept a legacy host key beside its new
\* address, and then app/1, which declares the name of app/0: the map holds
\* the one name with the address of app/1.
C21_Witness ==
    /\ Expanded(1)
    /\ result.order[1] = << "app/0", "app/1" >>
    /\ unitdata[1]["app/0"] =
          Update([parca_scrape_host |-> Address("app/0")], Publishes("app/0", Moved("app/0")))
    /\ unitdata[1]["app/1"] = [parca_scrape_unit_name    |-> UnitName("app/0"),
                               parca_scrape_unit_address |-> Address("app/1")]
    /\ HostsSeen(1) = << << UnitName("app/0"), Address("app/1") >> >>

-----------------------------------------------------------------------------
(* Properties of the publisher's writes, checked under SpecLeadership. *)

\* An application databag holds scrape_metadata and scrape_jobs or neither,
\* and a scrape_jobs list it holds is not empty.
AppRecordWhole(r) ==
    /\ ("scrape_metadata" \in DOMAIN appdata[r]) <=> ("scrape_jobs" \in DOMAIN appdata[r])
    /\ "scrape_jobs" \in DOMAIN appdata[r] => Len(appdata[r].scrape_jobs) >= 1

\* What the last handler wrote: its own unit databag's name and address, and
\* an application databag only if the unit was leader.
WroteWithinItsScope ==
    written # NothingWritten =>
        /\ written.bags = { << RelationOf(written.unit), written.unit >> }
        /\ written.keys = {"parca_scrape_unit_name", "parca_scrape_unit_address"}
        /\ written.app \subseteq { RelationOf(written.unit) }
        /\ written.app # {} => written.leader

\* A step that changes an application databag is a handler of the unit that
\* is leader, and it leaves the configured jobs, or the default job when
\* none was configured, beside that unit's metadata.
AppRecordChangedByLeader(r) ==
    appdata'[r] # appdata[r] =>
        /\ written'.leader
        /\ written'.unit = leader[r]
        /\ r \in written'.app
        /\ appdata'[r].scrape_metadata = _scrape_metadata(leader[r])
        /\ appdata'[r].scrape_jobs =
              (IF provider._jobs = <<>> THEN << DEFAULT_JOB >> ELSE provider._jobs)

\* C22: after any sequence of relation_joined, relation_changed,
\* upgrade_charm, leader_elected and refresh events on the publisher's units,
\* the application databag of each relation was written only by a unit that
\* was leader when it wrote, it holds scrape_metadata and scrape_jobs together
\* or neither, and its scrape_jobs list is never empty (the default job when
\* no job was configured); a unit that is not leader writes only the name
\* and address of its own unit databag.
C22_AppRecordWrittenWholeByLeader ==
    /\ [](\A r \in RelationIds : AppRecordWhole(r))
    /\ []WroteWithinItsScope
    /\ [][\A r \in RelationIds : AppRecordChangedByLeader(r)]_vars

\* The leader app/0 published the default job with its metadata, no job being
\* configured, and the last handler was one of app/1, which is not leader
\* and wrote its own name and address only.
C22_Witness ==
    /\ leader[1] = "app/0"
    /\ provider._jobs = <<>>
    /\ appdata[1] = [scrape_metadata |-> _scrape_metadata("app/0"),
                     scrape_jobs     |-> << DEFAULT_JOB >>]
    /\ written = [unit |-> "app/1", leader |-> FALSE, app |-> {},
                  bags |-> { <<1, "app/1">> },
                  keys |-> {"parca_scrape_unit_name", "parca_scrape_unit_address"}]
    /\ unitdata[1]["app/1"] = Publishes("app/1", Fqdn("app/1"))

====
